---- MODULE Spec2Model ----
(***************************************************************************)
(* A model of examples/pixel-city-advanced/dynamic_sky.py: the astro data  *)
(* provider (cache, remote fetch, fallback), the trajectory model (phase,  *)
(* progress, arch position, tint), the one-time layer setup and the        *)
(* reconciliation loop that drives `hyprlax ctl`.                          *)
(*                                                                         *)
(* Conventions.                                                            *)
(*  - Instants are whole minutes since an epoch that is a local midnight;  *)
(*    local midnight of the day of instant t is (t \div 1440) * 1440 (one  *)
(*    fixed time zone, no DST change inside the modelled days).  The       *)
(*    epoch-second integers of the code (int(dt.timestamp())) are these    *)
(*    instants: the truncation to a second is the identity on them.        *)
(*  - Python's None is the empty tuple <<>> where the value is a tuple or  *)
(*    a record wrapped in a one-element tuple, and a named sentinel        *)
(*    (NoId, NoPhase, NoTint, NoAt) elsewhere.                            *)
(*  - Moon phases and tint strengths are hundredths (0.05 is 5).           *)
(*  - Floats are exact rationals n/d; round() is round-half-even.          *)
(***************************************************************************)
EXTENDS Integers, Sequences, FiniteSets, TLC

\* ------------------------------------------------------------------ helpers

None == <<>>

Some(v) == <<v>>

IsNone(o) == Len(o) = 0

Abs(x) == IF x < 0 THEN -x ELSE x

Max2(a, b) == IF a >= b THEN a ELSE b

Min2(a, b) == IF a <= b THEN a ELSE b

\* clamp(x, a, b): a if x < a else b if x > b else x
clamp(x, a, b) == IF x < a THEN a ELSE IF x > b THEN b ELSE x

\* floor of n/d for d > 0 (\div is the floor division of TLA+)
FloorDiv(n, d) == n \div d

\* Python's round() of the rational n/d, d > 0: nearest integer, ties to even
RoundHalfEven(n, d) ==
    LET q == n \div d
        r == n % d
    IN  IF 2 * r < d THEN q
        ELSE IF 2 * r > d THEN q + 1
        ELSE IF q % 2 = 0 THEN q ELSE q + 1

RECURSIVE Gcd(_, _)
Gcd(a, b) == IF b = 0 THEN a ELSE Gcd(b, a % b)

MinutesPerDay == 1440

\* now.replace(hour=0, minute=0, second=0, microsecond=0)
LocalMidnight(t) == (t \div MinutesPerDay) * MinutesPerDay

\* ------------------------------------------------------- astro data provider

\* timedelta(hours=6), the cache TTL
SixHours == 360

\* a moon phase that is None / absent
NoPhase == -1

\* One entry of the provider's `daily` list.
DailyEntry(sr, ss, mphase) == [sunrise |-> sr, sunset |-> ss, moon_phase |-> mphase]

\* A decoded JSON object of the astro cache / the API: `ts` is the `_ts` key
\* (0 when the key is absent: `not ts` treats both alike), `daily` the list
\* under 'daily' (empty when the key is absent: data.get('daily', [])).
AstroObj(ts, fb, daily) == [ts |-> ts, fallback |-> fb, daily |-> daily]

\* fresh(cache) of get_astro_data: `cache` is None or Some(object)
fresh_nomidnight(cache, now) ==
    IF IsNone(cache) THEN FALSE
    ELSE IF cache[1].ts = 0 THEN FALSE
    ELSE now - cache[1].ts < SixHours

fresh(cache, now) ==
    IF IsNone(cache) THEN FALSE
    ELSE LET ts == cache[1].ts
             midnight == LocalMidnight(now)
         IN  IF ts = 0 THEN FALSE
             ELSE IF ts < midnight /\ now >= midnight THEN FALSE
             ELSE (now - ts) < SixHours

\* fetch_openweather: None unless key, lat and lon are all configured
\* (has_keys); otherwise the outcome of the HTTP request (`response`:
\* None for a failure or a non-200 status, else Some(decoded body)).
fetch_openweather(has_keys, response) ==
    IF ~has_keys THEN None ELSE response

\* The fallback object synthesized when there is neither data nor cache.
fallback_wrong_day(now) ==
    AstroObj(now, TRUE,
             << DailyEntry(390, 1110, NoPhase) >>)

Fallback(now) ==
    AstroObj(now, TRUE,
             << DailyEntry(LocalMidnight(now) + 6 * 60 + 30,
                           LocalMidnight(now) + 18 * 60 + 30,
                           NoPhase) >>)

\* get_astro_data (variant: a stale cache is dropped when the fetch fails,
\* and the fallback is written to the cache file)
get_astro_data_drop_stale(file, now, has_keys, response) ==
    LET data == fetch_openweather(has_keys, response)
    IN  IF fresh(file, now)
        THEN [astro |-> file, file |-> file, http |-> FALSE, was_fresh |-> TRUE,
              fetched |-> FALSE]
        ELSE IF ~IsNone(data)
        THEN [astro |-> Some([data[1] EXCEPT !.ts = now]),
              file |-> Some([data[1] EXCEPT !.ts = now]), http |-> has_keys,
              was_fresh |-> FALSE, fetched |-> TRUE]
        ELSE [astro |-> Some(Fallback(now)), file |-> Some(Fallback(now)),
              http |-> has_keys, was_fresh |-> FALSE, fetched |-> FALSE]

\* get_astro_data: from the cache file (None or Some(object)), the current
\* instant and the remote outcome, the returned object (`astro`), the cache
\* file afterwards (`file`), whether an HTTP request was made (`http`),
\* whether the cache was judged fresh (`was_fresh`) and whether
\* fetch_openweather returned data (`fetched`).
get_astro_data(file, now, has_keys, response) ==
    LET cache == file
        isfresh == fresh(cache, now)
        data == fetch_openweather(has_keys, response)
    IN  IF isfresh
        THEN [astro |-> cache, file |-> file, http |-> FALSE, was_fresh |-> TRUE,
              fetched |-> FALSE]
        ELSE IF ~IsNone(data)
        THEN LET stamped == Some([data[1] EXCEPT !.ts = now])
             IN  [astro |-> stamped, file |-> stamped, http |-> has_keys,
                  was_fresh |-> FALSE, fetched |-> TRUE]
        ELSE IF IsNone(cache)
        THEN [astro |-> Some(Fallback(now)), file |-> file, http |-> has_keys,
              was_fresh |-> FALSE, fetched |-> FALSE]
        ELSE [astro |-> cache, file |-> file, http |-> has_keys,
              was_fresh |-> FALSE, fetched |-> FALSE]

\* extract_times: None when there is no daily entry, else Some(times)
extract_times_no_next(data) ==
    IF Len(data.daily) = 0 THEN None
    ELSE Some([sunrise |-> data.daily[1].sunrise,
               sunset |-> data.daily[1].sunset,
               next_sunrise |-> data.daily[1].sunrise,
               moon_phase |-> data.daily[1].moon_phase])

extract_times(data) ==
    LET daily == data.daily IN
    IF Len(daily) = 0 THEN None
    ELSE LET today == daily[1]
             next_sunrise == IF Len(daily) > 1 THEN daily[2].sunrise
                             ELSE today.sunrise + MinutesPerDay
         IN  Some([sunrise |-> today.sunrise,
                   sunset |-> today.sunset,
                   next_sunrise |-> next_sunrise,
                   moon_phase |-> today.moon_phase])

\* main, lines 588-589: times = extract_times(now, astro) if astro else None
TimesOf(astro) == IF IsNone(astro) THEN None ELSE extract_times(astro[1])

\* ---------------------------------------------------------- trajectory model

\* classify_phase(now, sunrise, sunset, twilight_minutes)
classify_phase_halfopen_day(now, sunrise, sunset, twilight_minutes) ==
    IF now < sunrise - twilight_minutes \/ now > sunset + twilight_minutes
    THEN "night"
    ELSE IF now < sunrise THEN "dawn"
    ELSE IF now > sunset THEN "dusk"
    ELSE "day"

classify_phase(now, sunrise, sunset, twilight_minutes) ==
    LET dawn_start == sunrise - twilight_minutes
        dawn_end == sunrise + twilight_minutes
        dusk_start == sunset - twilight_minutes
        dusk_end == sunset + twilight_minutes
    IN  IF now < dawn_start \/ now >= dusk_end THEN "night"
        ELSE IF dawn_start <= now /\ now < dawn_end THEN "dawn"
        ELSE IF dusk_start <= now /\ now < dusk_end THEN "dusk"
        ELSE "day"

\* 10^4 * math.sin(math.pi * k / 192), rounded, for k = 0 .. 192 (entry k + 1)
SinTable ==
    <<
       0, 164, 327, 491, 654, 817, 980, 1143,
       1305, 1467, 1629, 1790, 1951, 2111, 2271, 2430,
       2588, 2746, 2903, 3059, 3214, 3369, 3523, 3675,
       3827, 3977, 4127, 4276, 4423, 4569, 4714, 4858,
       5000, 5141, 5281, 5419, 5556, 5691, 5825, 5957,
       6088, 6217, 6344, 6470, 6593, 6716, 6836, 6954,
       7071, 7186, 7299, 7410, 7518, 7625, 7730, 7833,
       7934, 8032, 8128, 8223, 8315, 8404, 8492, 8577,
       8660, 8741, 8819, 8895, 8969, 9040, 9109, 9175,
       9239, 9300, 9359, 9415, 9469, 9521, 9569, 9616,
       9659, 9700, 9739, 9775, 9808, 9838, 9866, 9892,
       9914, 9934, 9952, 9967, 9979, 9988, 9995, 9999,
       10000, 9999, 9995, 9988, 9979, 9967, 9952, 9934,
       9914, 9892, 9866, 9838, 9808, 9775, 9739, 9700,
       9659, 9616, 9569, 9521, 9469, 9415, 9359, 9300,
       9239, 9175, 9109, 9040, 8969, 8895, 8819, 8741,
       8660, 8577, 8492, 8404, 8315, 8223, 8128, 8032,
       7934, 7833, 7730, 7625, 7518, 7410, 7299, 7186,
       7071, 6954, 6836, 6716, 6593, 6470, 6344, 6217,
       6088, 5957, 5825, 5691, 5556, 5419, 5281, 5141,
       5000, 4858, 4714, 4569, 4423, 4276, 4127, 3977,
       3827, 3675, 3523, 3369, 3214, 3059, 2903, 2746,
       2588, 2430, 2271, 2111, 1951, 1790, 1629, 1467,
       1305, 1143, 980, 817, 654, 491, 327, 164,
       0 >>

\* The grid of the sine table: sin(pi * n / d) is tabulated for d dividing it.
SinGrid == Len(SinTable) - 1

\* 10^4 * math.sin(math.pi * n / d) for 0 <= n <= d, d dividing SinGrid
SinPi4(n, d) == SinTable[(n * SinGrid) \div d + 1]

\* A progress value t is the rational <<n, d>>, d > 0; clamp(t, 0.0, 1.0)
ClampUnit(t) ==
    IF t[1] < 0 THEN <<0, 1>>
    ELSE IF t[1] > t[2] THEN <<1, 1>>
    ELSE LET g == Gcd(t[1], t[2]) IN <<t[1] \div g, t[2] \div g>>

\* The margins default of compute_arch_xy, (80, 80)
MarginLeft == 80

MarginRight == 80

\* compute_arch_xy(t, W, H, y_base_px, arc_height_px): y_base100 and arc100
\* are the two pixel floats in hundredths of a pixel.
compute_arch_xy_flat(t, W, H, y_base100, arc100) ==
    LET c == ClampUnit(t)
    IN  << RoundHalfEven(MarginLeft * c[2] + (W - MarginLeft - MarginRight) * c[1], c[2]),
           RoundHalfEven(y_base100, 100) >>

compute_arch_xy(t, W, H, y_base100, arc100) ==
    LET c == ClampUnit(t)
        x == RoundHalfEven(MarginLeft * c[2] + (W - MarginLeft - MarginRight) * c[1], c[2])
        y == RoundHalfEven(y_base100 * 10000 - arc100 * SinPi4(c[1], c[2]), 1000000)
    IN  <<x, y>>

\* A tint spec string "<hex>:<s:.2f>" is [hex, s] with s in hundredths; the
\* string 'none' is NoneTint; the None of an unset gating entry is NoTint.
NoTint == [hex |-> "None", s |-> 0]

NoneTint == [hex |-> "none", s |-> 0]

\* tint_spec(hexrgb, strength): 100 * strength is the rational n/d; the
\* strength is clamped to [0, 1] and printed with two decimals
tint_spec(hexrgb, n, d) ==
    [hex |-> hexrgb, s |-> RoundHalfEven(clamp(n, 0, 100 * d), d)]

\* compute_tint_all_layers(phase, minutes_to_edge, twilight_minutes);
\* smoothstep(x) = x*x*(3 - 2x) with x = a/denom, times 0.30
compute_tint_linear(phase, minutes_to_edge, twilight_minutes) ==
    IF phase = "day" THEN NoneTint
    ELSE IF phase \in {"dawn", "dusk"}
    THEN LET denom == Max2(1, twilight_minutes)
             a == denom - clamp(Abs(minutes_to_edge), 0, denom)
         IN  tint_spec("#ffb566", 30 * a, denom)
    ELSE tint_spec("#000000", 50, 1)

compute_tint_all_layers(phase, minutes_to_edge, twilight_minutes) ==
    IF phase = "day" THEN NoneTint
    ELSE IF phase \in {"dawn", "dusk"}
    THEN LET denom == Max2(1, twilight_minutes)
             a == denom - clamp(Abs(minutes_to_edge), 0, denom)
         IN  tint_spec("#ffb566", 30 * a * a * (3 * denom - 2 * a),
                       denom * denom * denom)
    ELSE tint_spec("#000000", 50, 1)

\* --------------------------------------------------------------- compute_once

\* main, lines 686-688: the moon phase in use (override first), clamped
MoonPhaseInUse(args, times) ==
    LET raw == IF args.moon_phase # NoPhase THEN args.moon_phase
               ELSE times.moon_phase
    IN  IF raw # NoPhase THEN clamp(raw, 0, 100) ELSE NoPhase

\* main, lines 693-704, with the default --horizon-frac 0.62, --apex-frac-day
\* 0.18, --apex-frac-night 0.22, --top-margin 40 and automatic arc heights;
\* all in hundredths of a pixel
y_base100(H) == H * 62

arch_day100(H) == Max2(1000, y_base100(H) - Max2(4000, H * 18))

arch_night100(H) == Max2(1000, y_base100(H) - Max2(4000, H * 22))

\* compute_once, lines 712-724: t_day, None outside [sunrise, sunset]
t_day_open(now, times) ==
    IF times.sunrise < now /\ now < times.sunset
    THEN <<now - times.sunrise, times.sunset - times.sunrise>>
    ELSE None

t_day(now, times) ==
    IF times.sunrise <= now /\ now <= times.sunset
    THEN <<now - times.sunrise, times.sunset - times.sunrise>>
    ELSE None

\* compute_once, lines 712-724: t_night, None inside [sunrise, sunset]
t_night(now, times) ==
    IF times.sunrise <= now /\ now <= times.sunset THEN None
    ELSE IF now >= times.sunset
    THEN <<now - times.sunset, times.next_sunrise - times.sunset>>
    ELSE <<now - (times.sunset - MinutesPerDay),
           times.sunrise - (times.sunset - MinutesPerDay)>>

\* compute_once, lines 726-735, without the inclusion band
moon_visible_noband(sun_visible, force_moon, mp, phase_min, phase_max) ==
    ~sun_visible /\ (force_moon \/ mp # NoPhase)

\* compute_once, lines 726-735: the moon's visibility before the final
\* `and (not sun_visible)` of the returned dict
moon_visible_ungated(sun_visible, force_moon, mp, phase_min, phase_max) ==
    IF force_moon THEN TRUE
    ELSE mp # NoPhase /\ phase_min <= mp /\ mp <= phase_max

moon_visible_raw(sun_visible, force_moon, mp, phase_min, phase_max) ==
    IF ~sun_visible
    THEN IF force_moon THEN TRUE
         ELSE mp # NoPhase /\ phase_min <= mp /\ mp <= phase_max
    ELSE FALSE

\* compute_once, lines 752-754: minutes to the nearest of the three edges
minutes_to_edge(now, times) ==
    Min2(Abs(now - times.sunrise),
         Min2(Abs(now - times.sunset), Abs(now - times.next_sunrise)))

\* compute_once(now_dt): the returned dict
compute_once_both(now, times, args, W, H) ==
    LET td == t_day(now, times)
        tn == t_night(now, times)
        mv == moon_visible_ungated(~IsNone(td), args.force_moon,
                   MoonPhaseInUse(args, times),
                   clamp(args.moon_phase_min, 0, 100),
                   clamp(args.moon_phase_max, 0, 100))
    IN  [phase |-> classify_phase(now, times.sunrise, times.sunset, args.twilight_minutes),
         sun_visible |-> ~IsNone(td),
         moon_visible |-> mv,
         sun_xy |-> IF ~IsNone(td)
                    THEN compute_arch_xy(td, W, H, y_base100(H), arch_day100(H))
                    ELSE None,
         moon_xy |-> compute_arch_xy(IF IsNone(tn) THEN <<0, 1>> ELSE tn,
                                     W, H, y_base100(H), arch_night100(H)),
         layer_tint |-> compute_tint_all_layers(
                            classify_phase(now, times.sunrise, times.sunset,
                                           args.twilight_minutes),
                            minutes_to_edge(now, times), args.twilight_minutes)]

compute_once(now, times, args, W, H) ==
    LET sr == times.sunrise
        ss == times.sunset
        phase == classify_phase(now, sr, ss, args.twilight_minutes)
        td == t_day(now, times)
        tn == t_night(now, times)
        sun_visible == ~IsNone(td)
        mp == MoonPhaseInUse(args, times)
        phase_min == clamp(args.moon_phase_min, 0, 100)
        phase_max == clamp(args.moon_phase_max, 0, 100)
        moon_visible == moon_visible_raw(sun_visible, args.force_moon, mp,
                                         phase_min, phase_max)
        sun_xy == IF sun_visible
                  THEN compute_arch_xy(td, W, H, y_base100(H), arch_day100(H))
                  ELSE None
        moon_xy == IF ~sun_visible /\ ~IsNone(tn)
                   THEN compute_arch_xy(tn, W, H, y_base100(H), arch_night100(H))
                   ELSE None
        layer_tint == compute_tint_all_layers(phase, minutes_to_edge(now, times),
                                              args.twilight_minutes)
    IN  [phase |-> phase,
         sun_visible |-> sun_visible,
         moon_visible |-> moon_visible /\ ~sun_visible,
         sun_xy |-> sun_xy,
         moon_xy |-> moon_xy,
         layer_tint |-> layer_tint]

\* ------------------------------------------------------------ layer directory

\* A layer identifier that is None
NoId == -1

\* A layer of the external tool's list without a 'z'
NoZ == -1000000

SunOverlay == "sun_overlay.png"

MoonOverlay == "moon_overlay.png"

\* The default --sky-regex / --bld-regex, on paths inside the example directory
SkyPaths == {"1.png", "2.png", "3.png", "4.png"}

BldPaths == {"5.png", "6.png", "7.png", "8.png", "9.png", "10.png"}

\* One entry of `hyprlax ctl list`: id (NoId when absent), path ("" when
\* absent) and z (NoZ when absent)
Layer(id, path, z) == [id |-> id, path |-> path, z |-> z]

\* The id of the last entry of `list` whose path is `path`, else NoId
RECURSIVE LastIdWithPath(_, _)
LastIdWithPath(list, path) ==
    IF Len(list) = 0 THEN NoId
    ELSE IF list[Len(list)].path = path THEN list[Len(list)].id
    ELSE LastIdWithPath(SubSeq(list, 1, Len(list) - 1), path)

\* z_by_id.get(id): the z of the last entry with that id that has one
RECURSIVE ZById(_, _)
ZById(list, id) ==
    IF Len(list) = 0 \/ id = NoId THEN NoZ
    ELSE IF list[Len(list)].id = id /\ list[Len(list)].z # NoZ THEN list[Len(list)].z
    ELSE ZById(SubSeq(list, 1, Len(list) - 1), id)

\* The ids of the entries of `list` with a path in `paths`, in order
RECURSIVE IdsWithPathIn(_, _)
IdsWithPathIn(list, paths) ==
    IF Len(list) = 0 THEN <<>>
    ELSE IF list[1].path \in paths
         THEN <<list[1].id>> \o IdsWithPathIn(Tail(list), paths)
         ELSE IdsWithPathIn(Tail(list), paths)

\* discover_layers: `listed` is the list the tool returned (empty when both
\* list commands failed); entries without a path or an id are skipped
discover_layers(listed) ==
    LET usable == SelectSeq(listed, LAMBDA L : L.path # "" /\ L.id # NoId)
    IN  [sun_id |-> LastIdWithPath(usable, SunOverlay),
         moon_id |-> LastIdWithPath(usable, MoonOverlay),
         sky_ids |-> IdsWithPathIn(usable, SkyPaths),
         bld_ids |-> IdsWithPathIn(usable, BldPaths),
         all_ids |-> [i \in 1 .. Len(usable) |-> usable[i].id],
         usable |-> usable]

RECURSIVE MaxZ(_, _, _)
MaxZ(list, ids, dflt) ==
    IF Len(ids) = 0 THEN NoZ
    ELSE LET z0 == ZById(list, ids[1])
             z == IF z0 = NoZ THEN dflt ELSE z0
             rest == MaxZ(list, Tail(ids), dflt)
         IN  IF Len(ids) = 1 THEN z ELSE Max2(z, rest)

RECURSIVE MinZ(_, _, _)
MinZ(list, ids, dflt) ==
    IF Len(ids) = 0 THEN NoZ
    ELSE LET z0 == ZById(list, ids[1])
             z == IF z0 = NoZ THEN dflt ELSE z0
             rest == MinZ(list, Tail(ids), dflt)
         IN  IF Len(ids) = 1 THEN z ELSE Min2(z, rest)

\* ensure_layers, lines 615-629: the z chosen for both overlays
overlay_z(L, args) ==
    LET z1 == ZById(L.usable, LastIdWithPath(L.usable, "1.png"))
        z2 == ZById(L.usable, LastIdWithPath(L.usable, "2.png"))
        any_z == \E i \in 1 .. Len(L.usable) : L.usable[i].z # NoZ
    IN  IF z1 # NoZ /\ z2 # NoZ THEN Max2(z1 + 1, z2 - 1)
        ELSE IF Len(L.sky_ids) > 0 /\ Len(L.bld_ids) > 0 /\ any_z
        THEN Max2(MaxZ(L.usable, L.sky_ids, -9999) + 1,
                  MinZ(L.usable, L.bld_ids, 9999) - 1)
        ELSE args.sun_z

\* One invocation of `hyprlax ctl`: cmd is "status", "list", "add" or
\* "modify"; id the layer (NoId for none); prop the property of a modify
\* ("visible", "path", "tint", "z"; "" otherwise); str its value when it is
\* a string ("true", "false", or the overlay of a path), tint when it is a
\* tint spec, num when it is a number (the z of add / modify z); ok whether
\* the process exited with 0.
Call(cmd, id, prop, str, tint, num) ==
    [cmd |-> cmd, id |-> id, prop |-> prop, str |-> str, tint |-> tint,
     num |-> num, ok |-> TRUE]

AddCall(overlay, z) == Call("add", NoId, "", overlay, NoTint, z)

ModifyZ(lid, z) == Call("modify", lid, "z", "", NoTint, z)

ModifyVisible(lid, v) == Call("modify", lid, "visible", v, NoTint, 0)

ModifyPath(lid, overlay) == Call("modify", lid, "path", overlay, NoTint, 0)

ModifyTint(lid, spec) == Call("modify", lid, "tint", "", spec, 0)

\* (variant: the first failing call ends the sequence)
WithFailures_abort(cs, failing) ==
    LET n == IF failing = {} THEN Len(cs)
             ELSE CHOOSE m \in failing : \A k \in failing : m <= k
    IN  [i \in 1 .. n |-> [cs[i] EXCEPT !.ok = (i \notin failing)]]

\* The calls of `cs` with the ones at the indices in `failing` marked failed
WithFailures(cs, failing) ==
    [i \in 1 .. Len(cs) |-> [cs[i] EXCEPT !.ok = (i \notin failing)]]

IsMutation(c) == c.cmd \in {"add", "modify"}

\* The outcome of one `add`: the process failed, it succeeded but printed no
\* parsable "Layer added with ID:", or it succeeded and printed the new id
AddOutcomes == {"fail", "noparse", "id"}

\* (variant: the identifier is taken even from a failed or unparsable add)
add_overlay_layer_always(outcome, new_id) == new_id

\* add_overlay_layer: the identifier returned for an outcome
add_overlay_layer(outcome, new_id) == IF outcome = "id" THEN new_id ELSE NoId

\* The tool's layer list after an `add` that exited with 0
ExtAfterAdd(ext, outcome, overlay, z) ==
    IF outcome = "fail" THEN ext
    ELSE [layers |-> Append(ext.layers, Layer(ext.next_id, overlay, z)),
          next_id |-> ext.next_id + 1]

\* discover_layers, lines 429-465: the list commands issued and the list
\* obtained; list_mode is "json" (list --json works), "long" (only the
\* textual list --long works) or "down" (both fail)
ListCalls(list_mode) ==
    IF list_mode = "json" THEN << Call("list", NoId, "", "json", NoTint, 0) >>
    ELSE << [Call("list", NoId, "", "json", NoTint, 0) EXCEPT !.ok = FALSE],
            [Call("list", NoId, "", "long", NoTint, 0) EXCEPT !.ok = (list_mode = "long")] >>

Listed(ext, list_mode) == IF list_mode = "down" THEN <<>> ELSE ext.layers

\* The layers dict of a dry run, line 612
DryLayers ==
    [sun_id |-> 0, moon_id |-> 0, sky_ids |-> <<>>, bld_ids |-> <<>>,
     all_ids |-> <<>>, usable |-> <<>>]

\* ensure_layers past the dry-run return (lines 613-640): the layers dict
\* and the calls issued; `ext` is the tool's state when it starts, z_ok_sun
\* and z_ok_moon are the outcomes of the two modify z
ensure_layers_live(args, ext, list_mode, sun_add, moon_add, z_ok_sun, z_ok_moon) ==
    LET L == discover_layers(Listed(ext, list_mode))
        z == overlay_z(L, args)
        sun_new == L.sun_id = NoId
        ext1 == IF sun_new THEN ExtAfterAdd(ext, sun_add, SunOverlay, z) ELSE ext
        sun_id == IF sun_new THEN add_overlay_layer(sun_add, ext.next_id) ELSE L.sun_id
        sun_call == IF sun_new
                    THEN [AddCall(SunOverlay, z) EXCEPT !.ok = (sun_add # "fail")]
                    ELSE [ModifyZ(L.sun_id, z) EXCEPT !.ok = z_ok_sun]
        moon_new == L.moon_id = NoId
        moon_id == IF moon_new THEN add_overlay_layer(moon_add, ext1.next_id) ELSE L.moon_id
        moon_call == IF moon_new
                     THEN [AddCall(MoonOverlay, z) EXCEPT !.ok = (moon_add # "fail")]
                     ELSE [ModifyZ(L.moon_id, z) EXCEPT !.ok = z_ok_moon]
    IN  [layers |-> [L EXCEPT !.sun_id = sun_id, !.moon_id = moon_id],
         calls |-> ListCalls(list_mode) \o <<sun_call, moon_call>>]

ensure_layers_nodry(args, ext, list_mode, sun_add, moon_add, z_ok_sun, z_ok_moon) ==
    ensure_layers_live(args, ext, list_mode, sun_add, moon_add, z_ok_sun, z_ok_moon)

ensure_layers(args, ext, list_mode, sun_add, moon_add, z_ok_sun, z_ok_moon) ==
    IF args.dry_run
    THEN [layers |-> DryLayers, calls |-> <<>>]
    ELSE ensure_layers_live(args, ext, list_mode, sun_add, moon_add, z_ok_sun, z_ok_moon)

\* get_mon_geometry: `monitors` is the list under 'monitors' of status
\* --json (empty when the command failed or printed none); the largest by
\* area, if its width and height are positive, else the fallback
RECURSIVE LargestMonitor(_, _, _)
LargestMonitor(monitors, best, best_area) ==
    IF Len(monitors) = 0 THEN best
    ELSE LET m == monitors[1] IN
         IF m[1] * m[2] > best_area
         THEN LargestMonitor(Tail(monitors), m, m[1] * m[2])
         ELSE LargestMonitor(Tail(monitors), best, best_area)

get_mon_geometry(monitors) ==
    LET best == LargestMonitor(monitors, <<0, 0>>, -1)
    IN  IF Len(monitors) > 0 /\ best[1] > 0 /\ best[2] > 0 THEN best
        ELSE <<3840, 2160>>

\* ------------------------------------------------------- reconciliation loop

\* The truthiness test `layers['sun_id']` of lines 829-857
Truthy(lid) == lid # NoId /\ lid # 0

\* main, line 806
pos_eps(args) == IF args.demo # "" THEN 3 ELSE 10

\* lines 825-826 / 843-844: pos_changed for a position and its gating entry
pos_changed_always(xy, last_xy, eps) == TRUE

pos_changed_geq(xy, last_xy, eps) ==
    IsNone(last_xy)
    \/ Max2(Abs(xy[1] - last_xy[1]), Abs(xy[2] - last_xy[2])) >= eps

pos_changed(xy, last_xy, eps) ==
    IsNone(last_xy)
    \/ Max2(Abs(xy[1] - last_xy[1]), Abs(xy[2] - last_xy[2])) > eps

\* line 821: tint_changed
tint_changed_always(layer_tint, last_tint) == TRUE

tint_changed(layer_tint, last_tint) == layer_tint # last_tint

IfCall(cond, c) == IF cond THEN <<c>> ELSE <<>>

\* lines 823-839: the calls of the sun branch of one tick
\* (variant: show/hide only together with a redraw)
SunCalls_gated(st, last, layers, args) ==
    LET live_sun == ~args.dry_run /\ Truthy(layers.sun_id)
        live_moon == ~args.dry_run /\ Truthy(layers.moon_id)
        moved == pos_changed(st.sun_xy, last.sun_xy, pos_eps(args))
    IN  IF st.sun_visible /\ ~IsNone(st.sun_xy)
        THEN IfCall(moved /\ live_sun, ModifyPath(layers.sun_id, SunOverlay))
             \o IfCall(moved /\ live_moon, ModifyVisible(layers.moon_id, "false"))
             \o IfCall(moved /\ live_sun, ModifyVisible(layers.sun_id, "true"))
        ELSE IfCall(live_sun, ModifyVisible(layers.sun_id, "false"))

SunCalls(st, last, layers, args) ==
    LET live_sun == ~args.dry_run /\ Truthy(layers.sun_id)
        live_moon == ~args.dry_run /\ Truthy(layers.moon_id)
    IN  IF st.sun_visible /\ ~IsNone(st.sun_xy)
        THEN IfCall(pos_changed(st.sun_xy, last.sun_xy, pos_eps(args)) /\ live_sun,
                    ModifyPath(layers.sun_id, SunOverlay))
             \o IfCall(live_moon, ModifyVisible(layers.moon_id, "false"))
             \o IfCall(live_sun, ModifyVisible(layers.sun_id, "true"))
        ELSE IfCall(live_sun, ModifyVisible(layers.sun_id, "false"))

\* lines 841-857: the calls of the moon branch of one tick
MoonCalls(st, last, layers, args) ==
    LET live_sun == ~args.dry_run /\ Truthy(layers.sun_id)
        live_moon == ~args.dry_run /\ Truthy(layers.moon_id)
    IN  IF st.moon_visible /\ ~IsNone(st.moon_xy)
        THEN IfCall(pos_changed(st.moon_xy, last.moon_xy, pos_eps(args)) /\ live_moon,
                    ModifyPath(layers.moon_id, MoonOverlay))
             \o IfCall(live_sun, ModifyVisible(layers.sun_id, "false"))
             \o IfCall(live_moon, ModifyVisible(layers.moon_id, "true"))
        ELSE IfCall(live_moon, ModifyVisible(layers.moon_id, "false"))

\* apply_tint_all(spec): one modify tint per listed layer that is no overlay
RECURSIVE TintCallsFor(_, _, _)
TintCallsFor(ids, layers, spec) ==
    IF Len(ids) = 0 THEN <<>>
    ELSE IfCall(ids[1] \notin {layers.sun_id, layers.moon_id}, ModifyTint(ids[1], spec))
         \o TintCallsFor(Tail(ids), layers, spec)

apply_tint_all_nodry(spec, layers, args) == TintCallsFor(layers.all_ids, layers, spec)

apply_tint_all(spec, layers, args) ==
    IF args.dry_run THEN <<>> ELSE TintCallsFor(layers.all_ids, layers, spec)

\* lines 859-861
TintCalls(st, last, layers, args) ==
    IF tint_changed(st.layer_tint, last.layer_tint)
    THEN apply_tint_all(st.layer_tint, layers, args)
    ELSE <<>>

\* The overlays redrawn by draw_overlay in one tick (lines 827-828, 845-847)
Draws(st, last, args) ==
    (IF st.sun_visible /\ ~IsNone(st.sun_xy)
        /\ pos_changed(st.sun_xy, last.sun_xy, pos_eps(args))
     THEN <<"sun">> ELSE <<>>)
    \o (IF st.moon_visible /\ ~IsNone(st.moon_xy)
           /\ pos_changed(st.moon_xy, last.moon_xy, pos_eps(args))
        THEN <<"moon">> ELSE <<>>)

\* All `hyprlax ctl` calls of one tick, in the order issued (lines 819-861)
TickCalls(st, last, layers, args) ==
    SunCalls(st, last, layers, args) \o MoonCalls(st, last, layers, args)
    \o TintCalls(st, last, layers, args)

\* lines 863-866: the gating state after a tick
UpdateLast_keep_tint(st, last) ==
    [sun_xy |-> st.sun_xy, moon_xy |-> st.moon_xy, layer_tint |-> last.layer_tint]

UpdateLast(st, last) ==
    [sun_xy |-> st.sun_xy, moon_xy |-> st.moon_xy, layer_tint |-> st.layer_tint]

\* No overlay drawn yet
NoDrawn == [sun |-> None, moon |-> None]

\* lines 823-857: where each overlay is drawn after a tick; draw_overlay
\* writes the overlay at the computed position when pos_changed
DrawnAfter(st, last, args, drawn) ==
    [sun |-> IF st.sun_visible /\ ~IsNone(st.sun_xy)
             THEN IF pos_changed(st.sun_xy, last.sun_xy, pos_eps(args))
                  THEN st.sun_xy ELSE drawn.sun
             ELSE None,
     moon |-> IF st.moon_visible /\ ~IsNone(st.moon_xy)
              THEN IF pos_changed(st.moon_xy, last.moon_xy, pos_eps(args))
                   THEN st.moon_xy ELSE drawn.moon
              ELSE None]

\* lines 871-881: sleep_s in milliseconds
\* (variant: the day sleep is the interval without its lower limit)
Cadence_nofloor(args, phase) ==
    IF args.demo # "" THEN 500
    ELSE IF phase \in {"dawn", "dusk"}
    THEN 1000 * Min2(60, Max2(30, FloorDiv(args.interval, 2)))
    ELSE IF phase = "day" THEN 1000 * args.interval
    ELSE 1000 * Max2(120, args.interval + 180)

Cadence(args, phase) ==
    IF args.demo # "" THEN 500
    ELSE IF phase \in {"dawn", "dusk"}
    THEN 1000 * Min2(60, Max2(30, FloorDiv(args.interval, 2)))
    ELSE IF phase = "day" THEN 1000 * Max2(60, args.interval)
    ELSE 1000 * Max2(120, args.interval + 180)

\* lines 598-604: the gating dict at startup; last.get('layer_tint') is None
InitLast == [sun_xy |-> None, moon_xy |-> None, layer_tint |-> NoTint]

\* --------------------------------------------------------------- time sources

\* The --at argument: kind "none" (not given), "iso" (a full timestamp, v
\* the instant), "hhmm" (HH:MM of today, v the minute of the day) or "bad"
At(kind, v) == [kind |-> kind, v |-> v]

\* parse_at_time(at_str, tz_str): None or Some(instant); `today` is the
\* instant now_tz() returns during the call
parse_at_time(at, today) ==
    IF at.kind = "iso" THEN Some(at.v)
    ELSE IF at.kind = "hhmm" THEN Some(LocalMidnight(today) + at.v)
    ELSE None

\* lines 662-671: the demo window <<win_start, win_end>>
DemoWindow(args, times) ==
    LET tw == args.twilight_minutes IN
    IF args.demo = "dawn" THEN <<times.sunrise - tw, times.sunrise + tw>>
    ELSE IF args.demo = "dusk" THEN <<times.sunset - tw, times.sunset + tw>>
    ELSE IF args.demo = "day" THEN <<times.sunrise, times.sunset>>
    ELSE <<times.sunset, times.next_sunrise>>

\* line 672, in minutes: max(1.0, seconds) with a window of whole minutes
WindowLen(args, times) ==
    Max2(1, DemoWindow(args, times)[2] - DemoWindow(args, times)[1])

\* _demo_now(): win_start + frac * window_len, where frac * window_len is the
\* offset `off` into the window (0 <= off < window_len)
demo_now(args, times, off) == DemoWindow(args, times)[1] + off

\* lines 809-814: the `now` of a tick
TickNow(args, times, fixed_now, off, wall) ==
    IF args.demo # "" THEN demo_now(args, times, off)
    ELSE IF ~IsNone(fixed_now) THEN fixed_now[1]
    ELSE wall

\* line 868: the loop ends after this tick
BreaksAfterTick(args, fixed_now) ==
    args.once \/ (~IsNone(fixed_now) /\ args.demo = "")

\* ------------------------------------------------------------------ the model

VARIABLES
    pc,          \* where main is: "start", "geometry", "layers", "parse_at",
                 \* "loop", "done", "exit1", "exit2", "interrupted"; the
                 \* provider on its own: "idle", "ran"
    args,        \* the parsed command line
    clock,       \* the wall clock as last read by now_tz()
    cache_file,  \* assets/cache/astro.json: None or Some(object)
    astro,       \* the last get_astro_data call: its result and what it did
    times,       \* extract_times(now, astro): None or Some(times)
    geom,        \* (W, H)
    layers,      \* the layers dict of ensure_layers
    fixed_now,   \* None or Some(the --at instant)
    demo_off,    \* demo mode: the offset of the demo clock into its window
    now,         \* the `now` of the last tick
    last,        \* the gating dict
    state,       \* None or Some(the dict compute_once returned in the last tick)
    calls,       \* the hyprlax ctl calls of the last step, in order
    draws,       \* the overlays draw_overlay wrote in the last tick
    prev_state,  \* history: `state` before the last tick
    last_pre,    \* history: `last` before the last tick
    prev_now,    \* history: `now` before the last tick
    sleep_ms,    \* the sleep_s the last tick slept for, in milliseconds
                 \* (0 before the first tick and after a tick that breaks)
    drawn        \* history, kept by TickDrawn only: where draw_overlay last
                 \* drew each overlay, for a body shown in the last tick
                 \* (None for a body not shown)

vars == << pc, args, clock, cache_file, astro, times, geom, layers,
           fixed_now, demo_off, now, last, state, calls, draws, prev_state,
           last_pre, prev_now, sleep_ms, drawn >>

\* ---- bounds of the model
\* the first modelled day starts at this many days after the epoch
FirstDay == 1

\* the wall clock stops advancing after this many half hours of the run
HorizonSteps == 62

\* between two ticks the sampled instant advances by 0 .. MaxJump half hours
MaxJump == 4

\* at most this many hyprlax ctl calls of one tick exit non-zero
MaxFails == 1

\* astro provider alone: the runs spread over this many days
AstroDays == 2

\* trajectory model alone: the instants swept cover this many days, the sweep
\* advancing by 1 .. MaxTrajJump quarters of an hour
TrajDays == 1

MaxTrajJump == 2

Day1 == FirstDay * MinutesPerDay

\* ---- the inputs enumerated
\* The provider's daily entry for the day of instant t: sunrise 05:00,
\* sunset 21:00, a near-new moon
ApiDay(t) == DailyEntry(LocalMidnight(t) + 300, LocalMidnight(t) + 1260, 2)

\* The outcomes of the HTTP request at instant t
Responses(t) ==
    { None,
      Some(AstroObj(0, FALSE, <<>>)),
      Some(AstroObj(0, FALSE, << ApiDay(t) >>)),
      Some(AstroObj(0, FALSE, << ApiDay(t), ApiDay(t + MinutesPerDay) >>)) }

\* main: whether key and coordinates are configured, and the HTTP outcome
MainAstroEnv(t) ==
    { <<FALSE, None>>,
      <<TRUE, Some(AstroObj(0, FALSE, <<>>))>>,
      <<TRUE, Some(AstroObj(0, FALSE, << ApiDay(t), ApiDay(t + MinutesPerDay) >>))>> }

\* main: the cache file the run finds (the provider on its own covers the rest)
CacheChoices == { None }

\* main starts at 00:30 of the first day
StartClocks == { Day1 + 30 }

DefaultArgs ==
    [dry_run |-> FALSE, once |-> FALSE, at |-> At("none", 0), demo |-> "",
     force_moon |-> FALSE, moon_phase |-> NoPhase, moon_phase_min |-> 5,
     moon_phase_max |-> 95, twilight_minutes |-> 45, interval |-> 120,
     sun_z |-> 5, moon_z |-> 5]

\* <<once, at, demo>>: the loop, --once, --at 12:30, an unparsable --at, and
\* the four demo windows
ModeChoices ==
    { <<FALSE, At("none", 0), "">>, <<TRUE, At("none", 0), "">>,
      <<FALSE, At("hhmm", 750), "">>, <<FALSE, At("bad", 0), "">>,
      <<FALSE, At("none", 0), "dawn">>, <<FALSE, At("none", 0), "dusk">>,
      <<FALSE, At("none", 0), "day">>, <<FALSE, At("none", 0), "night">> }

\* <<force_moon, moon_phase>>: nothing, --force-moon, --moon-phase 0.5
MoonChoices == { <<FALSE, NoPhase>>, <<TRUE, NoPhase>>, <<FALSE, 50>> }

ArgChoices ==
    { [DefaultArgs EXCEPT !.dry_run = d, !.once = m[1], !.at = m[2], !.demo = m[3],
                          !.force_moon = f[1], !.moon_phase = f[2], !.moon_z = 7] :
        d \in BOOLEAN, m \in ModeChoices, f \in MoonChoices }

\* status --json: no usable answer, or one small monitor
MonitorChoices == { <<>>, << <<232, 160>> >> }

\* The external tool at startup, its layer list and the next id it assigns:
\* nothing loaded (ids from 0), or the wallpaper's layers and the overlays
\* of an earlier run
BaseLayers == << Layer(1, "1.png", 0), Layer(2, "2.png", 10), Layer(3, "5.png", 20) >>

ExtChoices ==
    { [layers |-> <<>>, next_id |-> 0],
      [layers |-> BaseLayers \o << Layer(4, SunOverlay, 5), Layer(5, MoonOverlay, 5) >>,
       next_id |-> 6] }

\* How the tool answers the list commands at startup
ListModes == {"json", "long"}

NoAstro ==
    [astro |-> None, http |-> FALSE, was_fresh |-> FALSE, fetched |-> FALSE,
     pre |-> None, at |-> 0]

NoLayers ==
    [sun_id |-> NoId, moon_id |-> NoId, sky_ids |-> <<>>, bld_ids |-> <<>>,
     all_ids |-> <<>>, usable |-> <<>>]

\* ---- main: startup

Init ==
    /\ pc = "start"
    /\ args \in ArgChoices
    /\ clock \in StartClocks
    /\ cache_file \in CacheChoices
    /\ astro = NoAstro
    /\ times = None
    /\ geom = <<0, 0>>
    /\ layers = NoLayers
    /\ fixed_now = None
    /\ demo_off = 0
    /\ now = 0
    /\ last = InitLast
    /\ state = None
    /\ calls = <<>>
    /\ draws = <<>>
    /\ prev_state = None
    /\ last_pre = InitLast
    /\ prev_now = 0
    /\ sleep_ms = 0
    /\ drawn = NoDrawn

\* What one get_astro_data call leaves in `astro`
AstroResult(r, file, t) ==
    [astro |-> r.astro, http |-> r.http, was_fresh |-> r.was_fresh,
     fetched |-> r.fetched, pre |-> file, at |-> t]

\* main, lines 588-592: get_astro_data, extract_times, exit 1 without times
StartAstro ==
    /\ pc = "start"
    /\ \E e \in MainAstroEnv(clock) :
         LET r == get_astro_data(cache_file, clock, e[1], e[2]) IN
         /\ astro' = AstroResult(r, cache_file, clock)
         /\ cache_file' = r.file
         /\ times' = TimesOf(r.astro)
         /\ pc' = IF IsNone(TimesOf(r.astro)) THEN "exit1" ELSE "geometry"
    /\ UNCHANGED << args, clock, geom, layers, fixed_now, demo_off, now,
                    last, state, calls, draws, prev_state, last_pre, prev_now,
                    sleep_ms, drawn >>

\* main, line 594: get_mon_geometry, one status --json call
GetGeometry ==
    /\ pc = "geometry"
    /\ \E monitors \in MonitorChoices :
         /\ geom' = get_mon_geometry(monitors)
         /\ calls' = << [Call("status", NoId, "", "json", NoTint, 0)
                           EXCEPT !.ok = (Len(monitors) > 0)] >>
    /\ pc' = "layers"
    /\ UNCHANGED << args, clock, cache_file, astro, times, layers,
                    fixed_now, demo_off, now, last, state, draws, prev_state,
                    last_pre, prev_now,
                    sleep_ms, drawn >>

\* main, line 648: layers = ensure_layers()
EnsureLayers ==
    /\ pc = "layers"
    /\ \E ext \in ExtChoices, list_mode \in ListModes, sun_add \in AddOutcomes,
          moon_add \in AddOutcomes, z_ok_sun \in BOOLEAN, z_ok_moon \in BOOLEAN :
         LET r == ensure_layers(args, ext, list_mode, sun_add, moon_add,
                                z_ok_sun, z_ok_moon) IN
         /\ layers' = r.layers
         /\ calls' = r.calls
    /\ pc' = "parse_at"
    /\ UNCHANGED << args, clock, cache_file, astro, times, geom, fixed_now,
                    demo_off, now, last, state, draws, prev_state, last_pre, prev_now,
                    sleep_ms, drawn >>

\* main, lines 650-656: the --at override, exit 2 when it does not parse
ParseAt ==
    /\ pc = "parse_at"
    /\ LET parsed == parse_at_time(args.at, clock) IN
         IF args.at.kind # "none" /\ IsNone(parsed)
         THEN /\ pc' = "exit2"
              /\ fixed_now' = None
         ELSE /\ pc' = "loop"
              /\ fixed_now' = IF args.at.kind # "none" THEN parsed ELSE None
    /\ calls' = <<>>
    /\ UNCHANGED << args, clock, cache_file, astro, times, geom, layers,
                    demo_off, now, last, state, draws, prev_state, last_pre, prev_now,
                    sleep_ms, drawn >>

\* ---- main: one iteration of the loop, lines 808-885

\* The sets of call indices that may fail in one tick
FailSets(n) == { F \in SUBSET (1 .. n) : Cardinality(F) <= MaxFails }

TickBody ==
    /\ pc = "loop"
    /\ \E jump \in 0 .. MaxJump :
         \* the first tick samples its clock as it is; before every later one
         \* the loop has slept and the clock (the wall clock, or the demo
         \* clock) has advanced
         /\ IsNone(state) => jump = 0
         /\ clock + jump * 30 <= Day1 + HorizonSteps * 30
         /\ \E c \in { IF args.demo = "" /\ IsNone(fixed_now)
                        THEN clock + jump * 30 ELSE clock },
               off \in { IF args.demo # ""
                         THEN (demo_off + jump * 30) % WindowLen(args, times[1])
                         ELSE demo_off } :
              \E st \in { compute_once(TickNow(args, times[1], fixed_now, off, c),
                                       times[1], args, geom[1], geom[2]) } :
                \E cs \in { TickCalls(st, last, layers, args) } :
                  /\ clock' = c
                  /\ demo_off' = off
                  /\ now' = TickNow(args, times[1], fixed_now, off, c)
                  /\ state' = Some(st)
                  /\ prev_state' = state
                  /\ last_pre' = last
                  /\ prev_now' = now
                  /\ draws' = Draws(st, last, args)
                  /\ \E failing \in FailSets(Len(cs)) :
                       calls' = WithFailures(cs, failing)
                  /\ last' = UpdateLast(st, last)
                  /\ sleep_ms' = IF BreaksAfterTick(args, fixed_now) THEN 0
                                  ELSE Cadence(args, st.phase)
    /\ pc' = IF BreaksAfterTick(args, fixed_now) THEN "done" ELSE "loop"
    /\ UNCHANGED << args, cache_file, astro, times, geom, layers, fixed_now >>

\* One iteration of the loop; where the overlays were drawn is not recorded
Tick == TickBody /\ UNCHANGED drawn

\* One iteration of the loop, recording where draw_overlay drew
TickDrawn ==
    /\ TickBody
    /\ drawn' = DrawnAfter(state'[1], last, args, drawn)

\* lines 887-889: KeyboardInterrupt while the loop runs; the process ends
\* and what it held in memory is gone
Interrupt ==
    /\ pc = "loop"
    /\ pc' = "interrupted"
    /\ now' = 0
    /\ last' = InitLast
    /\ state' = None
    /\ calls' = <<>>
    /\ draws' = <<>>
    /\ prev_state' = None
    /\ last_pre' = InitLast
    /\ prev_now' = 0
    /\ demo_off' = 0
    /\ sleep_ms' = 0
    /\ drawn' = NoDrawn
    /\ UNCHANGED << args, clock, cache_file, astro, times, geom, layers, fixed_now >>

Next == StartAstro \/ GetGeometry \/ EnsureLayers \/ ParseAt \/ Tick \/ Interrupt

Spec == Init /\ [][Next]_vars

\* ---- the astro data provider on its own: the program is started again
\* and again while the clock advances; the cache file persists between runs

\* The minutes of a day at which a run may start: around midnight, around
\* six hours after it, and through the day
RunMinutes == {0, 1, 359, 360, 361, 362, 720, 1080, 1439}

RunInstants ==
    { (FirstDay + d) * MinutesPerDay + m : d \in 0 .. AstroDays - 1, m \in RunMinutes }

InitAstro ==
    /\ pc = "idle"
    /\ args = DefaultArgs
    /\ clock \in RunInstants
    /\ cache_file = None
    /\ astro = NoAstro
    /\ times = None
    /\ geom = <<0, 0>>
    /\ layers = NoLayers
    /\ fixed_now = None
    /\ demo_off = 0
    /\ now = 0
    /\ last = InitLast
    /\ state = None
    /\ calls = <<>>
    /\ draws = <<>>
    /\ prev_state = None
    /\ last_pre = InitLast
    /\ prev_now = 0
    /\ sleep_ms = 0
    /\ drawn = NoDrawn

\* One run's get_astro_data and extract_times (lines 588-589)
AstroRun ==
    /\ pc = "idle"
    /\ \E has_keys \in BOOLEAN, response \in Responses(clock) :
         LET r == get_astro_data(cache_file, clock, has_keys, response) IN
         /\ astro' = AstroResult(r, cache_file, clock)
         /\ cache_file' = r.file
         /\ times' = TimesOf(r.astro)
    /\ pc' = "ran"
    /\ UNCHANGED << args, clock, geom, layers, fixed_now, demo_off, now,
                    last, state, calls, draws, prev_state, last_pre, prev_now,
                    sleep_ms, drawn >>

\* The run is over and time passes until the next one
AstroAdvance ==
    /\ pc = "ran"
    /\ \E c \in RunInstants :
         /\ c > clock
         /\ clock' = c
    /\ pc' = "idle"
    /\ astro' = NoAstro
    /\ times' = None
    /\ UNCHANGED << args, cache_file, geom, layers, fixed_now, demo_off, now,
                    last, state, calls, draws, prev_state, last_pre, prev_now,
                    sleep_ms, drawn >>

NextAstro == AstroRun \/ AstroAdvance

SpecAstro == InitAstro /\ [][NextAstro]_vars

\* ---- layer setup on its own: ensure_layers against a wider choice of what
\* the external tool has loaded

\* --sun-z 5 or 12, --moon-z 7, with and without --dry-run
SetupArgChoices ==
    { [DefaultArgs EXCEPT !.dry_run = d, !.sun_z = z, !.moon_z = 7] :
        d \in BOOLEAN, z \in {5, 12} }

\* The tool's layer list at startup: nothing; the wallpaper with both
\* overlays, with the sun overlay only, with the moon overlay only; 1.png and
\* 2.png one apart; sky and building layers without 1.png / 2.png; 1.png
\* above 2.png; a sky layer above a building layer; 2.png without a z
SetupExtChoices ==
    { [layers |-> <<>>, next_id |-> 0],
      [layers |-> BaseLayers \o << Layer(4, SunOverlay, 5), Layer(5, MoonOverlay, 5) >>,
       next_id |-> 6],
      [layers |-> BaseLayers \o << Layer(4, SunOverlay, 5) >>, next_id |-> 5],
      [layers |-> BaseLayers \o << Layer(4, MoonOverlay, 5) >>, next_id |-> 5],
      [layers |-> << Layer(1, "1.png", 0), Layer(2, "2.png", 1), Layer(3, "5.png", 20) >>,
       next_id |-> 4],
      [layers |-> << Layer(1, "3.png", 3), Layer(2, "4.png", 8), Layer(3, "5.png", 20),
                     Layer(4, "6.png", 30) >>,
       next_id |-> 5],
      [layers |-> << Layer(1, "1.png", 10), Layer(2, "2.png", 0), Layer(3, "3.png", 15),
                     Layer(4, "5.png", 20) >>,
       next_id |-> 5],
      [layers |-> << Layer(1, "3.png", 20), Layer(2, "5.png", 10) >>, next_id |-> 3],
      [layers |-> << Layer(1, "1.png", 0), Layer(2, "2.png", NoZ), Layer(3, "5.png", 20) >>,
       next_id |-> 4] }

\* How the tool answers the list commands: --json, only --long, neither
SetupListModes == {"json", "long", "down"}

InitSetup ==
    /\ pc = "layers"
    /\ args \in SetupArgChoices
    /\ clock = Day1
    /\ cache_file = None
    /\ astro = NoAstro
    /\ times = None
    /\ geom = <<232, 160>>
    /\ layers = NoLayers
    /\ fixed_now = None
    /\ demo_off = 0
    /\ now = 0
    /\ last = InitLast
    /\ state = None
    /\ calls = <<>>
    /\ draws = <<>>
    /\ prev_state = None
    /\ last_pre = InitLast
    /\ prev_now = 0
    /\ sleep_ms = 0
    /\ drawn = NoDrawn

\* main, line 648: layers = ensure_layers()
EnsureLayersSetup ==
    /\ pc = "layers"
    /\ \E ext \in SetupExtChoices, list_mode \in SetupListModes,
          sun_add \in AddOutcomes, moon_add \in AddOutcomes,
          z_ok_sun \in BOOLEAN, z_ok_moon \in BOOLEAN :
         LET r == ensure_layers(args, ext, list_mode, sun_add, moon_add,
                                z_ok_sun, z_ok_moon) IN
         /\ layers' = r.layers
         /\ calls' = r.calls
    /\ pc' = "parse_at"
    /\ UNCHANGED << args, clock, cache_file, astro, times, geom, fixed_now,
                    demo_off, now, last, state, draws, prev_state, last_pre, prev_now,
                    sleep_ms, drawn >>

NextSetup == EnsureLayersSetup

SpecSetup == InitSetup /\ [][NextSetup]_vars

\* ---- the loop on its own, recording where the overlays are drawn: the
\* loop is entered with times and layers in place

\* the loop and the day demo; dry-run, and live with both overlays present
LoopArgChoices ==
    { [DefaultArgs EXCEPT !.dry_run = d, !.demo = m, !.moon_phase = 50] :
        d \in BOOLEAN, m \in {"", "day"} }

LoopLayers ==
    [sun_id |-> 4, moon_id |-> 5, sky_ids |-> <<1, 2>>, bld_ids |-> <<3>>,
     all_ids |-> <<1, 2, 3, 4, 5>>,
     usable |-> BaseLayers \o << Layer(4, SunOverlay, 5), Layer(5, MoonOverlay, 5) >>]

InitLoop ==
    /\ pc = "loop"
    /\ args \in LoopArgChoices
    /\ clock = Day1 + 30
    /\ cache_file = None
    /\ astro = NoAstro
    /\ times = Some([sunrise |-> Day1 + 390, sunset |-> Day1 + 1110,
                     next_sunrise |-> Day1 + MinutesPerDay + 390,
                     moon_phase |-> NoPhase])
    /\ geom \in {<<232, 160>>, <<3840, 2160>>}
    /\ layers = IF args.dry_run THEN DryLayers ELSE LoopLayers
    /\ fixed_now = None
    /\ demo_off = 0
    /\ now = 0
    /\ last = InitLast
    /\ state = None
    /\ calls = <<>>
    /\ draws = <<>>
    /\ prev_state = None
    /\ last_pre = InitLast
    /\ prev_now = 0
    /\ sleep_ms = 0
    /\ drawn = NoDrawn

NextLoop == TickDrawn

SpecLoop == InitLoop /\ [][NextLoop]_vars

\* ---- the loop's cadence on its own: the loop is entered in dry-run mode
\* with a chosen --interval

\* --interval (type=int, any integer is accepted)
IntervalChoices == {-7, 0, 20, 59, 60, 119, 120, 121, 600}

CadenceArgChoices ==
    { [DefaultArgs EXCEPT !.dry_run = TRUE, !.demo = m, !.interval = i] :
        m \in {"", "night"}, i \in IntervalChoices }

InitCadence ==
    /\ pc = "loop"
    /\ args \in CadenceArgChoices
    /\ clock = Day1 + 30
    /\ cache_file = None
    /\ astro = NoAstro
    /\ times = Some([sunrise |-> Day1 + 390, sunset |-> Day1 + 1110,
                     next_sunrise |-> Day1 + MinutesPerDay + 390,
                     moon_phase |-> NoPhase])
    /\ geom = <<3840, 2160>>
    /\ layers = DryLayers
    /\ fixed_now = None
    /\ demo_off = 0
    /\ now = 0
    /\ last = InitLast
    /\ state = None
    /\ calls = <<>>
    /\ draws = <<>>
    /\ prev_state = None
    /\ last_pre = InitLast
    /\ prev_now = 0
    /\ sleep_ms = 0
    /\ drawn = NoDrawn

NextCadence == Tick

SpecCadence == InitCadence /\ [][NextCadence]_vars

\* ---- the trajectory model on its own: compute_once at instants sweeping
\* the day, for chosen sunrise, sunset and twilight window

\* <<sunrise, sunset>> as minutes of the day: the fallback's, the provider's
\* long summer day, and a short winter day
SunChoices == { <<390, 1110>>, <<300, 1260>>, <<480, 960>> }

\* --twilight-minutes
TwilightChoices == {0, 15, 45, 90, 270}

\* the provider's moon phase in hundredths: unknown, near new, the two ends
\* of the default band, full, just past the band
MoonPhaseChoices == {NoPhase, 2, 5, 50, 95, 96}

\* the monitor of get_mon_geometry: a small one, and one narrower than the
\* two margins of compute_arch_xy together
GeomChoices == { <<232, 160>>, <<100, 160>> }

TrajTimes ==
    { [sunrise |-> Day1 + c[1], sunset |-> Day1 + c[2],
       next_sunrise |-> Day1 + MinutesPerDay + c[1], moon_phase |-> mph] :
        c \in SunChoices, mph \in MoonPhaseChoices }

InitTraj ==
    /\ pc = "traj"
    /\ args \in { [DefaultArgs EXCEPT !.twilight_minutes = tw, !.dry_run = TRUE,
                                       !.force_moon = fm] :
                    tw \in TwilightChoices, fm \in BOOLEAN }
    /\ clock = Day1
    /\ cache_file = None
    /\ astro = NoAstro
    /\ times \in { Some(t) : t \in TrajTimes }
    /\ geom \in GeomChoices
    /\ layers = NoLayers
    /\ fixed_now = None
    /\ demo_off = 0
    /\ now = 0
    /\ last = InitLast
    /\ state = None
    /\ calls = <<>>
    /\ draws = <<>>
    /\ prev_state = None
    /\ last_pre = InitLast
    /\ prev_now = 0
    /\ sleep_ms = 0
    /\ drawn = NoDrawn

\* state = compute_once(now) at the next instant of the sweep
TrajStep ==
    /\ pc = "traj"
    /\ \E k \in 0 .. MaxTrajJump :
         /\ IsNone(state) <=> k = 0
         /\ clock + k * 15 <= Day1 + TrajDays * MinutesPerDay
         /\ clock' = clock + k * 15
         /\ now' = clock + k * 15
         /\ state' = Some(compute_once(clock + k * 15, times[1], args,
                                       geom[1], geom[2]))
    /\ prev_state' = state
    /\ prev_now' = now
    /\ UNCHANGED << pc, args, cache_file, astro, times, geom, layers, fixed_now,
                    demo_off, last, calls, draws, last_pre,
                    sleep_ms, drawn >>

NextTraj == TrajStep

SpecTraj == InitTraj /\ [][NextTraj]_vars

\* ------------------------------------------------------------ properties

\* A tick has run and its results are in state, calls and draws
Ticked == ~IsNone(state)

\* A tick has run outside dry-run mode
LiveTick == Ticked /\ ~args.dry_run

\* The overlay's identifier passes the loop's presence test
SunPresent == Truthy(layers.sun_id)

MoonPresent == Truthy(layers.moon_id)

\* The number of modify <lid> path calls of the last tick
NPath(lid) ==
    Len(SelectSeq(calls, LAMBDA c : c.cmd = "modify" /\ c.prop = "path" /\ c.id = lid))

\* The number of times draw_overlay wrote the overlay `kind` in the last tick
NDraw(kind) == Len(SelectSeq(draws, LAMBDA d : d = kind))

\* The modify <lid> visible calls of the last tick, in order
VisibleCalls(lid) ==
    SelectSeq(calls, LAMBDA c : c.cmd = "modify" /\ c.prop = "visible" /\ c.id = lid)

\* The modify <id> tint calls of the last tick, in order
TintIssued == SelectSeq(calls, LAMBDA c : c.cmd = "modify" /\ c.prop = "tint")

\* The largest of |dx| and |dy| between two positions
Moved(p, q) == Max2(Abs(p[1] - q[1]), Abs(p[2] - q[2]))

\* The gating epsilon as the specification gives it
GatingEpsilon == IF args.demo # "" THEN 3 ELSE 10

\* C1: the sky state computed by a tick never has sun_visible and
\* moon_visible both true, whatever the time, the astro data and the moon
\* configuration.
C1_NeverBothVisible ==
    Ticked => ~(state[1].sun_visible /\ state[1].moon_visible)

\* C1 witness: a daytime tick under --force-moon, where the moon would show
\* but for the sun
C1_Witness ==
    /\ Ticked
    /\ args.force_moon
    /\ state[1].sun_visible
    /\ ~state[1].moon_visible

\* Position gating of one body in the last tick: visible now and before with
\* a move of at most epsilon, no redraw and no path refresh; with a larger
\* move, or when it was not visible in the tick before (or there was none),
\* exactly one of each
GatedBody(visible, xy, prev_visible, prev_xy, lid, kind) ==
    visible =>
        IF prev_visible /\ Moved(xy, prev_xy) <= GatingEpsilon
        THEN NDraw(kind) = 0 /\ NPath(lid) = 0
        ELSE NDraw(kind) = 1 /\ NPath(lid) = 1

\* C2: outside dry-run and with the body's layer identifier present (it
\* passes the loop's test), a body visible in two consecutive ticks is
\* neither redrawn nor refreshed when it moved by at most epsilon (3 in demo
\* mode, 10 otherwise; the largest of |dx| and |dy|), and is redrawn and
\* refreshed exactly once when it moved by more; on the first tick on which
\* it is visible it is redrawn and refreshed exactly once.
C2_PositionGating ==
    LiveTick =>
        /\ SunPresent =>
             GatedBody(state[1].sun_visible, state[1].sun_xy,
                       ~IsNone(prev_state) /\ prev_state[1].sun_visible,
                       IF IsNone(prev_state) \/ IsNone(prev_state[1].sun_xy)
                       THEN <<0, 0>> ELSE prev_state[1].sun_xy,
                       layers.sun_id, "sun")
        /\ MoonPresent =>
             GatedBody(state[1].moon_visible, state[1].moon_xy,
                       ~IsNone(prev_state) /\ prev_state[1].moon_visible,
                       IF IsNone(prev_state) \/ IsNone(prev_state[1].moon_xy)
                       THEN <<0, 0>> ELSE prev_state[1].moon_xy,
                       layers.moon_id, "moon")

\* C2 witness: the sun, visible in two consecutive ticks, moved by exactly
\* epsilon and was neither redrawn nor refreshed
C2_Witness ==
    /\ LiveTick
    /\ SunPresent
    /\ ~IsNone(prev_state)
    /\ prev_state[1].sun_visible
    /\ state[1].sun_visible
    /\ Moved(state[1].sun_xy, prev_state[1].sun_xy) = GatingEpsilon
    /\ NDraw("sun") = 0
    /\ NPath(layers.sun_id) = 0

\* The last tick was the second of two consecutive ticks with the same
\* `now`, outside dry-run, with both overlay layers present
SecondTickSameNow ==
    /\ LiveTick
    /\ ~IsNone(prev_state)
    /\ prev_now = now
    /\ SunPresent
    /\ MoonPresent

\* C3 as stated: the second of two consecutive ticks with the same `now`
\* (gating state carried over, not dry-run, overlay layers present) issues
\* no external mutation call: no add, no modify of visibility, path, tint
\* or z.
C3_Original ==
    SecondTickSameNow => \A i \in 1 .. Len(calls) : ~IsMutation(calls[i])

\* C3 amended: the second of two consecutive ticks with the same `now`
\* redraws nothing and issues no add and no modify of path, tint or z; the
\* calls it issues are the modify visible calls of the two overlays, which
\* repeat the visibility of the first tick.
C3_SecondTickOnlyVisibility ==
    SecondTickSameNow =>
        /\ draws = <<>>
        /\ \A i \in 1 .. Len(calls) :
             /\ calls[i].cmd = "modify"
             /\ calls[i].prop = "visible"
             /\ calls[i].id \in {layers.sun_id, layers.moon_id}
        /\ state = prev_state

\* C3 witness: a second tick at the same `now` that re-issues visibility
\* calls, after a first tick that had set tints
C3_Witness ==
    /\ SecondTickSameNow
    /\ Len(calls) >= 2
    /\ last_pre.layer_tint # NoTint
    /\ Len(layers.all_ids) > 2

\* C4 as stated: after every tick each gating entry equals the value
\* actually applied: a position entry takes a new position only in a tick
\* that redrew the overlay and whose path refresh succeeded, the tint entry
\* changes only in a tick whose tint calls were issued and all succeeded.
C4_GatingEqualsApplied ==
    (LiveTick /\ SunPresent /\ MoonPresent) =>
        /\ (last.sun_xy # last_pre.sun_xy /\ ~IsNone(last.sun_xy)) =>
             /\ NDraw("sun") = 1
             /\ \E i \in 1 .. Len(calls) :
                  /\ calls[i].prop = "path"
                  /\ calls[i].id = layers.sun_id
                  /\ calls[i].ok
        /\ (last.moon_xy # last_pre.moon_xy /\ ~IsNone(last.moon_xy)
            /\ state[1].moon_visible) =>
             /\ NDraw("moon") = 1
             /\ \E i \in 1 .. Len(calls) :
                  /\ calls[i].prop = "path"
                  /\ calls[i].id = layers.moon_id
                  /\ calls[i].ok
        /\ (last.layer_tint # last_pre.layer_tint /\ Len(layers.all_ids) > 2) =>
             /\ Len(TintIssued) > 0
             /\ \A i \in 1 .. Len(TintIssued) : TintIssued[i].ok

\* C5 as stated: a tint modify or a path refresh that exited non-zero is
\* issued again in the next tick when that tick wants the same tint, or the
\* same position of the still visible body.
C5_FailedCallRetried ==
    [][ (pc = "loop" /\ LiveTick /\ ~IsNone(state')) =>
          \A i \in 1 .. Len(calls) :
            /\ (calls[i].prop = "tint" /\ ~calls[i].ok
                /\ state'[1].layer_tint = calls[i].tint) =>
                 \E j \in 1 .. Len(calls') :
                    /\ calls'[j].prop = "tint"
                    /\ calls'[j].id = calls[i].id
                    /\ calls'[j].tint = calls[i].tint
            /\ (calls[i].prop = "path" /\ ~calls[i].ok
                /\ calls[i].id = layers.sun_id
                /\ state'[1].sun_visible /\ state'[1].sun_xy = state[1].sun_xy) =>
                 \E j \in 1 .. Len(calls') :
                    calls'[j].prop = "path" /\ calls'[j].id = calls[i].id
            /\ (calls[i].prop = "path" /\ ~calls[i].ok
                /\ calls[i].id = layers.moon_id
                /\ state'[1].moon_visible /\ state'[1].moon_xy = state[1].moon_xy) =>
                 \E j \in 1 .. Len(calls') :
                    calls'[j].prop = "path" /\ calls'[j].id = calls[i].id
      ]_vars

\* The listed layers that are no overlay, which apply_tint_all tints
BackgroundIds ==
    SelectSeq(layers.all_ids, LAMBDA lid : lid \notin {layers.sun_id, layers.moon_id})

\* C6: in any tick tint modify calls are issued only if the computed tint
\* spec differs from the one last applied (the spec the loop last handed to
\* apply_tint_all, which the gating entry holds; None before the first
\* tick); when they are equal no tint call is issued; on the first tick of
\* a run the tint is always applied: outside dry-run every background layer
\* gets one tint call with the computed spec.
C6_TintGating ==
    Ticked =>
        /\ Len(TintIssued) > 0 => state[1].layer_tint # last_pre.layer_tint
        /\ state[1].layer_tint = last_pre.layer_tint => Len(TintIssued) = 0
        /\ \A i \in 1 .. Len(TintIssued) : TintIssued[i].tint = state[1].layer_tint
        /\ (~args.dry_run /\ state[1].layer_tint # last_pre.layer_tint) =>
             [i \in 1 .. Len(TintIssued) |-> TintIssued[i].id] = BackgroundIds
        /\ IsNone(prev_state) =>
             /\ last_pre.layer_tint = NoTint
             /\ state[1].layer_tint # last_pre.layer_tint

\* C6 witness: a later tick whose tint equals the one last applied and
\* that issues no tint call although there are background layers
C6_Witness ==
    /\ LiveTick
    /\ ~IsNone(prev_state)
    /\ prev_now # now
    /\ Len(BackgroundIds) > 0
    /\ state[1].layer_tint = last_pre.layer_tint
    /\ Len(TintIssued) = 0

\* The value of the last modify <lid> visible call of the last tick
LastVisible(lid) == VisibleCalls(lid)[Len(VisibleCalls(lid))].str

\* C7: in every tick outside dry-run with both overlay layers present (both
\* identifiers pass the loop's test) at least one modify visible call is
\* issued for the sun layer and for the moon layer, and the last value
\* issued for each equals the computed sun_visible / moon_visible, also
\* when nothing is redrawn.
C7_VisibilityEveryTick ==
    (LiveTick /\ SunPresent /\ MoonPresent) =>
        /\ Len(VisibleCalls(layers.sun_id)) >= 1
        /\ Len(VisibleCalls(layers.moon_id)) >= 1
        /\ LastVisible(layers.sun_id) = (IF state[1].sun_visible THEN "true" ELSE "false")
        /\ LastVisible(layers.moon_id) = (IF state[1].moon_visible THEN "true" ELSE "false")

\* C7 witness: a tick in which the sun moved, by less than epsilon, nothing
\* was redrawn, and both layers got their visibility call
C7_Witness ==
    /\ LiveTick
    /\ SunPresent
    /\ MoonPresent
    /\ ~IsNone(prev_state)
    /\ state[1].sun_visible
    /\ prev_state[1].sun_visible
    /\ state[1].sun_xy # prev_state[1].sun_xy
    /\ draws = <<>>
    /\ LastVisible(layers.sun_id) = "true"
    /\ LastVisible(layers.moon_id) = "false"

\* C8: in dry-run mode no add and no modify call is issued at any step of
\* the run, layer setup and every tick included.
C8_DryRunNoMutation ==
    args.dry_run => \A i \in 1 .. Len(calls) : ~IsMutation(calls[i])

\* C8 witness: a dry-run tick at dusk that redrew the sun and found a tint
\* to apply, and issued no call
C8_Witness ==
    /\ Ticked
    /\ args.dry_run
    /\ draws = <<"sun">>
    /\ state[1].phase = "dusk"
    /\ state[1].layer_tint # last_pre.layer_tint
    /\ calls = <<>>

\* get_astro_data has run and its record is in astro
AstroRan == ~IsNone(astro.astro)

\* A local midnight lies after instant a and not after instant b
MidnightBetween(a, b) == \E m \in a + 1 .. b : m % (24 * 60) = 0

\* C9: the cache entry is treated as fresh if and only if now - _ts is less
\* than 6 hours and no local midnight lies between _ts and now (a midnight
\* after _ts, up to and including now); an entry of 23:59 is stale at 00:01
\* of the next day; a fresh entry causes no remote fetch.
C9_CacheFreshness ==
    (AstroRan /\ ~IsNone(astro.pre)) =>
        /\ astro.was_fresh <=>
             /\ astro.at - astro.pre[1].ts < 6 * 60
             /\ ~MidnightBetween(astro.pre[1].ts, astro.at)
        /\ (astro.pre[1].ts % (24 * 60) = 23 * 60 + 59
            /\ astro.at = astro.pre[1].ts + 2) => ~astro.was_fresh
        /\ astro.was_fresh =>
             /\ ~astro.http
             /\ astro.astro = astro.pre
             /\ cache_file = astro.pre

\* C9 witness: a run at 00:01 that finds a cache written at 23:59 and does
\* not take it as fresh
C9_Witness ==
    /\ AstroRan
    /\ ~IsNone(astro.pre)
    /\ astro.pre[1].ts % (24 * 60) = 23 * 60 + 59
    /\ astro.at = astro.pre[1].ts + 2
    /\ ~astro.was_fresh

\* C10: when fetch_openweather returns nothing (the request failed, or key
\* or coordinates are missing) and there is no cache, get_astro_data returns
\* a fallback whose single daily entry has sunrise 06:30 and sunset 18:30 of
\* the current local day and no moon phase, and extract_times on it gives
\* next_sunrise = sunrise + 24h.
C10_Fallback ==
    (AstroRan /\ IsNone(astro.pre) /\ ~astro.fetched) =>
        LET day_start == astro.at - (astro.at % (24 * 60))
            obj == astro.astro[1]
        IN  /\ obj.fallback
            /\ Len(obj.daily) = 1
            /\ obj.daily[1].sunrise = day_start + 6 * 60 + 30
            /\ obj.daily[1].sunset = day_start + 18 * 60 + 30
            /\ obj.daily[1].moon_phase = NoPhase
            /\ ~IsNone(times)
            /\ times[1].sunrise = obj.daily[1].sunrise
            /\ times[1].sunset = obj.daily[1].sunset
            /\ times[1].next_sunrise = times[1].sunrise + 24 * 60
            /\ times[1].moon_phase = NoPhase

\* C10 witness: an evening run without cache whose HTTP request failed
C10_Witness ==
    /\ AstroRan
    /\ IsNone(astro.pre)
    /\ astro.http
    /\ ~astro.fetched
    /\ astro.at % (24 * 60) = 1080
    /\ astro.astro[1].fallback

\* C11: when the cache is stale and the fetch fails, get_astro_data returns
\* the stale cache contents unchanged (no fallback) and leaves the cache
\* file as it was; the cache file changes only in a run whose fetch
\* succeeded.
C11_StaleCacheReused ==
    AstroRan =>
        /\ (~IsNone(astro.pre) /\ ~astro.was_fresh /\ ~astro.fetched) =>
             /\ astro.astro = astro.pre
             /\ cache_file = astro.pre
        /\ cache_file # astro.pre =>
             /\ astro.fetched
             /\ cache_file = astro.astro
             /\ cache_file[1].ts = astro.at

\* C11 witness: a run after midnight that finds yesterday's API data in the
\* cache, whose HTTP request fails, and that returns the cached data
C11_Witness ==
    /\ AstroRan
    /\ ~IsNone(astro.pre)
    /\ ~astro.pre[1].fallback
    /\ Len(astro.pre[1].daily) = 2
    /\ MidnightBetween(astro.pre[1].ts, astro.at)
    /\ astro.http
    /\ ~astro.fetched
    /\ astro.astro = astro.pre
    /\ cache_file = astro.pre

\* C12 as stated: for every cache state and every fetch outcome,
\* get_astro_data followed by extract_times yields a sunrise/sunset pair, and
\* the run never ends with exit code 1.
C12_AlwaysProceeds ==
    /\ pc # "exit1"
    /\ AstroRan => ~IsNone(times)

\* The minute of the day of an instant
MinuteOfDay(t) == t % (24 * 60)

\* C13 as stated: in a continuously running real-time loop, once the astro
\* data in use is stale (a local midnight crossed since it was obtained), a
\* later tick computes the sky state from sunrise and sunset of the current
\* calendar day, so that the sun is visible again in the daytime of the
\* following day. The tick judged here is at least the second one after
\* that midnight, at a time of day between the provider's sunrise and sunset.
C13_AstroRefreshedInLoop ==
    (/\ Ticked
     /\ args.demo = ""
     /\ IsNone(fixed_now)
     /\ ~IsNone(prev_state)
     /\ LocalMidnight(astro.at) < LocalMidnight(prev_now)
     /\ LocalMidnight(prev_now) = LocalMidnight(now)
     /\ MinuteOfDay(times[1].sunrise) <= MinuteOfDay(now)
     /\ MinuteOfDay(now) <= MinuteOfDay(times[1].sunset))
    => /\ state[1].sun_visible
       /\ LocalMidnight(now) <= times[1].sunrise

\* The trajectory model was evaluated at `now`
TrajRan == pc = "traj" /\ Ticked

\* The four intervals of the specification, for the times and the twilight
\* window in use
InDawn(n) ==
    /\ times[1].sunrise - args.twilight_minutes <= n
    /\ n < times[1].sunrise + args.twilight_minutes

InDusk(n) ==
    /\ times[1].sunset - args.twilight_minutes <= n
    /\ n < times[1].sunset + args.twilight_minutes

InDay(n) ==
    /\ times[1].sunrise + args.twilight_minutes <= n
    /\ n < times[1].sunset - args.twilight_minutes

InNight(n) == ~InDawn(n) /\ ~InDusk(n) /\ ~InDay(n)

\* classify_phase puts `now` into the interval of the specification that
\* holds it, the intervals do not overlap, and none of the four is empty
\* (each holds its first instant)
FourIntervals ==
    /\ state[1].phase \in {"night", "dawn", "day", "dusk"}
    /\ state[1].phase = "dawn" <=> InDawn(now)
    /\ state[1].phase = "dusk" <=> InDusk(now)
    /\ state[1].phase = "day" <=> InDay(now)
    /\ state[1].phase = "night" <=> InNight(now)
    /\ ~(InDawn(now) /\ InDusk(now))
    /\ InDawn(times[1].sunrise - args.twilight_minutes)
    /\ InDay(times[1].sunrise + args.twilight_minutes)
    /\ InDusk(times[1].sunset - args.twilight_minutes)
    /\ InNight(times[1].sunset + args.twilight_minutes)

\* C14 as stated: for every sunrise < sunset and every twilight_minutes >= 0
\* classify_phase is total and partitions the cycle into four contiguous
\* non-empty intervals without gaps or overlaps, dawn = [sunrise - twilight,
\* sunrise + twilight), dusk = [sunset - twilight, sunset + twilight), day
\* between dawn end and dusk start, night everything else.
C14_Original == TrajRan => FourIntervals

\* C14 amended: the same for every twilight_minutes >= 1 with sunrise +
\* twilight < sunset - twilight (the two windows apart, day not empty).
C14_PhasePartition ==
    (/\ TrajRan
     /\ args.twilight_minutes >= 1
     /\ times[1].sunrise + args.twilight_minutes
          < times[1].sunset - args.twilight_minutes)
    => FourIntervals

\* C14 witness: the first instant of a dusk window that starts after the end
\* of the dawn window, classified dusk
C14_Witness ==
    /\ TrajRan
    /\ args.twilight_minutes = 90
    /\ now = times[1].sunset - args.twilight_minutes
    /\ state[1].phase = "dusk"
    /\ prev_state[1].phase = "day"

\* t_day is defined at `now`: sunrise <= now <= sunset
TDayDefined == times[1].sunrise <= now /\ now <= times[1].sunset

\* The moon phase is known (override or provider) and lies in the inclusion
\* band [moon-phase-min, moon-phase-max]
PhaseInBand ==
    LET p == IF args.moon_phase # NoPhase THEN args.moon_phase
             ELSE times[1].moon_phase
    IN  /\ p # NoPhase
        /\ args.moon_phase_min <= p
        /\ p <= args.moon_phase_max

\* C15: at every evaluation the sun is visible iff t_day is defined, and
\* moon_visible is true iff the sun is not visible and (force-moon is set or
\* the phase is known and in the band); phase 0.02 at night with the default
\* band gives false, force-moon at night gives true for every phase.
C15_MoonGating ==
    TrajRan =>
        /\ state[1].sun_visible <=> TDayDefined
        /\ state[1].moon_visible <=>
             (~state[1].sun_visible /\ (args.force_moon \/ PhaseInBand))
        /\ (~TDayDefined /\ ~args.force_moon /\ times[1].moon_phase = 2)
             => ~state[1].moon_visible
        /\ (~TDayDefined /\ args.force_moon) => state[1].moon_visible

\* C15 witness: at night, no force-moon, phase 0.02 below the default band,
\* the moon is hidden
C15_Witness ==
    /\ TrajRan
    /\ ~TDayDefined
    /\ ~args.force_moon
    /\ times[1].moon_phase = 2
    /\ args.moon_phase_min = 5
    /\ ~state[1].moon_visible
    /\ ~state[1].sun_visible

\* C16: along the day arch x never decreases with t, runs from margin_left
\* at t = 0 (sunrise) to width - margin_right at t = 1 (sunset); y is the
\* same at t and 1 - t, is the horizon at both ends and deviates most, by the
\* arch height, at t = 1/2, where x is the horizontal midpoint; for any width.
C16_ArchShape ==
    (TrajRan /\ TDayDefined) =>
        LET W == geom[1]
            H == geom[2]
            sr == times[1].sunrise
            ss == times[1].sunset
            xy == state[1].sun_xy
            horizon == RoundHalfEven(y_base100(H), 100)
            apex == RoundHalfEven(y_base100(H) - arch_day100(H), 100)
        IN  /\ (~IsNone(prev_state) /\ prev_state[1].sun_visible /\ prev_now <= now)
                 => prev_state[1].sun_xy[1] <= xy[1]
            /\ now = sr => xy = <<MarginLeft, horizon>>
            /\ now = ss => xy = <<W - MarginRight, horizon>>
            /\ xy[2] = compute_arch_xy(<<ss - now, ss - sr>>, W, H,
                                       y_base100(H), arch_day100(H))[2]
            /\ apex <= xy[2] /\ xy[2] <= horizon
            /\ 2 * (now - sr) = ss - sr => xy = <<RoundHalfEven(W, 2), apex>>

\* The edge of the twilight window `now` is classified into: sunrise for
\* dawn, sunset for dusk
WindowEdge == IF state[1].phase = "dawn" THEN times[1].sunrise ELSE times[1].sunset

\* C17: for every sunrise < sunset and twilight_minutes >= 1, in dawn and dusk
\* the warm tint is 0.30 at the sunrise/sunset of that window, 0.00 at the
\* window's boundary, and never increases as `now` moves away from that edge;
\* day always gives "none", night always the same darkening tint.
C17_TintRamp ==
    (TrajRan /\ args.twilight_minutes >= 1) =>
        LET ph == state[1].phase
            tint == state[1].layer_tint
        IN  /\ ph = "day" => tint = NoneTint
            /\ ph = "night" => tint = [hex |-> "#000000", s |-> 50]
            /\ ph \in {"dawn", "dusk"} =>
                 /\ tint.hex = "#ffb566"
                 /\ tint.s <= 30
                 /\ now = WindowEdge => tint.s = 30
                 /\ now = WindowEdge - args.twilight_minutes => tint.s = 0
                 /\ (/\ ~IsNone(prev_state)
                     /\ prev_state[1].phase = ph
                     /\ prev_now < now)
                    => /\ now <= WindowEdge
                            => prev_state[1].layer_tint.s <= tint.s
                       /\ prev_now >= WindowEdge
                            => prev_state[1].layer_tint.s >= tint.s

\* The calls of the last tick with their exit codes left out
IssuedCalls == [i \in 1 .. Len(calls) |-> [calls[i] EXCEPT !.ok = TRUE]]

\* A modify call of the last tick exited with non-zero
SomeCallFailed == \E i \in 1 .. Len(calls) : ~calls[i].ok

\* C18: a failing modify call aborts neither the tick nor the loop: the calls
\* issued by the tick are, in number and order, those it issues when every
\* call succeeds (the rest still issued, the failed one not repeated), and
\* the loop continues unless it was to stop after this tick anyway.
C18_FailureDoesNotAbort ==
    (pc \in {"loop", "done"} /\ LiveTick /\ SomeCallFailed) =>
        /\ IssuedCalls = TickCalls(state[1], last_pre, layers, args)
        /\ pc = "done" => BreaksAfterTick(args, fixed_now)

\* C18 witness: the first of at least three calls of a tick failed, a call
\* was issued after it, and the loop is still running
C18_Witness ==
    /\ pc = "loop"
    /\ LiveTick
    /\ Len(calls) >= 3
    /\ ~calls[1].ok
    /\ calls[1].prop = "path"
    /\ calls[Len(calls)].prop = "tint"

\* C19: with --dry-run the hyprlax control tool is never invoked, at no
\* point of the run and not for the read-only status and list queries
\* either.
C19_DryRunNoInvocation ==
    (pc \notin {"idle", "ran", "traj"} /\ args.dry_run) => calls = <<>>

\* C20: when no background layer is identifiable for z placement (no layers
\* 1/2 by name, no sky or building group), ensure_layers creates or
\* reconciles the sun overlay at z = --sun-z and the moon overlay at
\* z = --moon-z.
C20_MoonZ ==
    (/\ pc = "parse_at"
     /\ ~args.dry_run
     /\ Len(layers.sky_ids) = 0 /\ Len(layers.bld_ids) = 0
     /\ Len(layers.usable) = 0)
    => /\ Len(calls) >= 2
       /\ calls[Len(calls) - 1].str = SunOverlay
       /\ calls[Len(calls) - 1].num = args.sun_z
       /\ calls[Len(calls)].str = MoonOverlay
       /\ calls[Len(calls)].num = args.moon_z

\* The rational <<n, d>> equals a / b (b, d > 0) and lies in [0, 1]
IsFraction(t, a, b) ==
    /\ ~IsNone(t)
    /\ t[2] > 0
    /\ t[1] * b = a * t[2]
    /\ 0 <= t[1] /\ t[1] <= t[2]

\* C21: at every `now` exactly one of t_day and t_night is defined; t_day is
\* defined iff sunrise <= now <= sunset and is then (now - sunrise) / (sunset
\* - sunrise) in [0, 1]; for sunset < now <= next_sunrise t_night is (now -
\* sunset) / (next_sunrise - sunset) in [0, 1]; for sunset - 24h <= now <
\* sunrise it is (now - (sunset - 24h)) / (sunrise - (sunset - 24h)) in [0, 1].
C21_Progress ==
    TrajRan =>
        LET sr == times[1].sunrise
            ss == times[1].sunset
            nsr == times[1].next_sunrise
            td == t_day(now, times[1])
            tn == t_night(now, times[1])
        IN  /\ IsNone(td) # IsNone(tn)
            /\ ~IsNone(td) <=> (sr <= now /\ now <= ss)
            /\ state[1].sun_visible <=> ~IsNone(td)
            /\ ~IsNone(td) => IsFraction(td, now - sr, ss - sr)
            /\ (ss < now /\ now <= nsr) => IsFraction(tn, now - ss, nsr - ss)
            /\ (ss - MinutesPerDay <= now /\ now < sr)
                 => IsFraction(tn, now - (ss - MinutesPerDay),
                               sr - (ss - MinutesPerDay))

\* C21 witnesses: an instant before sunrise measured from yesterday's sunset,
\* with the moon on its arch
C21_Witness ==
    /\ TrajRan
    /\ now < times[1].sunrise
    /\ times[1].sunset - MinutesPerDay <= now
    /\ ~IsNone(t_night(now, times[1]))
    /\ IsNone(t_day(now, times[1]))
    /\ ~IsNone(state[1].moon_xy)

\* ensure_layers has run outside dry-run mode and its calls are in `calls`
SetupDone == pc = "parse_at" /\ ~args.dry_run

\* Discovery found a layer for the overlay
Found(overlay) ==
    \E i \in 1 .. Len(layers.usable) : layers.usable[i].path = overlay

\* The identifiers discovery listed
ListedIds == { layers.usable[i].id : i \in 1 .. Len(layers.usable) }

\* The add calls of setup for the overlay
Adds(overlay) == SelectSeq(calls, LAMBDA c : c.cmd = "add" /\ c.str = overlay)

\* The modify calls of setup on the layer
Modifies(lid) == SelectSeq(calls, LAMBDA c : c.cmd = "modify" /\ c.id = lid)

\* Setup handled one overlay as stated; lid is the identifier recorded
SetupOf(overlay, lid) ==
    IF Found(overlay)
    THEN /\ Len(Adds(overlay)) = 0
         /\ lid = LastIdWithPath(layers.usable, overlay)
         /\ Len(Modifies(lid)) = 1
         /\ Modifies(lid)[1].prop = "z"
    ELSE /\ Len(Adds(overlay)) = 1
         /\ lid = NoId \/ lid \notin ListedIds
         /\ ~Adds(overlay)[1].ok => lid = NoId
         /\ lid # NoId => Len(Modifies(lid)) = 0

\* C22: in setup outside dry-run, for each overlay by itself: not found by
\* discovery, exactly one add and no modify, and the identifier the tool
\* returned is recorded (null after a failed add); found, no add and exactly
\* one modify <id> z; no property other than z is modified during setup.
C22_LayerSetup ==
    SetupDone =>
        /\ SetupOf(SunOverlay, layers.sun_id)
        /\ SetupOf(MoonOverlay, layers.moon_id)
        /\ \A i \in 1 .. Len(calls) :
             /\ calls[i].cmd \in {"list", "add", "modify"}
             /\ calls[i].cmd = "modify" => calls[i].prop = "z"

\* C22 witness: the sun overlay was found and reconciled, the moon overlay
\* was not found and its add failed
C22_Witness ==
    /\ SetupDone
    /\ Found(SunOverlay)
    /\ ~Found(MoonOverlay)
    /\ Len(Modifies(layers.sun_id)) = 1
    /\ Len(Adds(MoonOverlay)) = 1
    /\ ~Adds(MoonOverlay)[1].ok
    /\ layers.moon_id = NoId

\* The z of the discovered layer with that file name, NoZ without one
ZOfPath(path) == ZById(layers.usable, LastIdWithPath(layers.usable, path))

\* The z values of the discovered layers of a group that have one
GroupZ(ids) ==
    { ZById(layers.usable, ids[i]) : i \in 1 .. Len(ids) } \ {NoZ}

SetMax(S) == CHOOSE m \in S : \A k \in S : k <= m

SetMin(S) == CHOOSE m \in S : \A k \in S : m <= k

\* The z setup gave the overlays: the z of its last call (add or modify z)
SetupZ == calls[Len(calls)].num

\* 1.png and 2.png are both discovered with z values z1 < z2
NamedPairInOrder ==
    /\ ZOfPath("1.png") # NoZ
    /\ ZOfPath("2.png") # NoZ
    /\ ZOfPath("1.png") < ZOfPath("2.png")

\* Sky and building layers are both identified, max sky z < min building z
GroupsInOrder ==
    /\ GroupZ(layers.sky_ids) # {}
    /\ GroupZ(layers.bld_ids) # {}
    /\ SetMax(GroupZ(layers.sky_ids)) < SetMin(GroupZ(layers.bld_ids))

\* C23: with 1.png and 2.png discovered at z1 < z2 the overlay z satisfies
\* z1 < z <= z2, and z < z2 when z2 - z1 >= 2; otherwise, with sky and
\* building layers identified and max sky z < min building z, the overlay z
\* is above the maximum sky z and not above the minimum building z;
\* otherwise it is the configured default z.
C23_ZPlacement ==
    SetupDone =>
        IF NamedPairInOrder
        THEN /\ ZOfPath("1.png") < SetupZ
             /\ SetupZ <= ZOfPath("2.png")
             /\ ZOfPath("2.png") - ZOfPath("1.png") >= 2 => SetupZ < ZOfPath("2.png")
        ELSE IF GroupsInOrder
        THEN /\ SetMax(GroupZ(layers.sky_ids)) < SetupZ
             /\ SetupZ <= SetMin(GroupZ(layers.bld_ids))
        ELSE SetupZ = args.sun_z

\* A tick has run and the loop has slept after it
Slept == pc = "loop" /\ Ticked

\* C24: for every --interval, outside demo mode the sleep after a tick
\* satisfies sleep(dawn) = sleep(dusk) < sleep(day) < sleep(night), and
\* sleep(day) is the interval when that is at least 60 s; in demo mode the
\* sleep is 0.5 s in every phase.
C24_Cadence ==
    Slept =>
        IF args.demo # "" THEN sleep_ms = 500
        ELSE LET ph == state[1].phase IN
             /\ ph \in {"dawn", "dusk"} =>
                  /\ sleep_ms = Cadence(args, "dawn")
                  /\ sleep_ms = Cadence(args, "dusk")
                  /\ sleep_ms < Cadence(args, "day")
             /\ ph = "day" =>
                  /\ Cadence(args, "dawn") < sleep_ms
                  /\ sleep_ms < Cadence(args, "night")
                  /\ args.interval >= 60 => sleep_ms = 1000 * args.interval
             /\ ph = "night" => Cadence(args, "day") < sleep_ms

\* C24 witness: a day tick with an interval below 60 s slept 60 s
C24_Witness ==
    /\ Slept
    /\ args.demo = ""
    /\ args.interval = 20
    /\ state[1].phase = "day"
    /\ sleep_ms = 60000

\* Every call of the last tick exited with 0
AllCallsOk == \A i \in 1 .. Len(calls) : calls[i].ok

\* The overlay drawn at p is within the gating epsilon of q in each coordinate
WithinEps(p, q) ==
    /\ ~IsNone(p)
    /\ Abs(p[1] - q[1]) <= pos_eps(args)
    /\ Abs(p[2] - q[2]) <= pos_eps(args)

\* C25: with the external calls succeeding, after every tick on which a body
\* is visible the position its overlay was last drawn at is within the
\* gating epsilon, in each coordinate, of the position computed in that
\* tick, for every sequence of ticks.
C25_BoundedDisplayError ==
    (Ticked /\ AllCallsOk) =>
        /\ (state[1].sun_visible /\ ~IsNone(state[1].sun_xy))
             => WithinEps(drawn.sun, state[1].sun_xy)
        /\ (state[1].moon_visible /\ ~IsNone(state[1].moon_xy))
             => WithinEps(drawn.moon, state[1].moon_xy)

\* The loop issued the calls of a tick for the overlay layer lid: at least
\* one visibility call, and a path refresh when the overlay was redrawn
Honoured(lid, kind) ==
    lid # NoId =>
        /\ Len(VisibleCalls(lid)) >= 1
        /\ NDraw(kind) >= 1 => NPath(lid) >= 1

\* C26: every overlay identifier captured by discovery or creation, whatever
\* non-null value the tool assigned (0 included), is the target of the
\* visibility calls of each tick outside dry-run, and of the path refresh
\* after a redraw.
C26_IdentifierHonoured ==
    LiveTick =>
        /\ Honoured(layers.sun_id, "sun")
        /\ Honoured(layers.moon_id, "moon")

\* C27: when the run aborts with exit code 1 (no sunrise / sunset) or exit
\* code 2 (unparsable --at), no add or modify call has been issued and no
\* tick has run: the step into the abort finds no such call among the calls
\* issued up to it.
C27_AbortBeforeLayers ==
    [][ pc' \in {"exit1", "exit2"} =>
          /\ IsNone(state)
          /\ \A i \in 1 .. Len(calls) : ~IsMutation(calls[i]) ]_vars

\* The visibility <<sun, moon>> of the two overlay layers in the external
\* tool after the first k calls of the last tick, from the visibility vis
\* at the start of the tick
RECURSIVE VisAfter(_, _)
VisAfter(k, vis) ==
    IF k = 0 THEN vis
    ELSE LET v == VisAfter(k - 1, vis)
             c == calls[k]
             sets == c.cmd = "modify" /\ c.prop = "visible"
         IN  << IF sets /\ c.id = layers.sun_id THEN c.str = "true" ELSE v[1],
                IF sets /\ c.id = layers.moon_id THEN c.str = "true" ELSE v[2] >>

\* The visibilities the two layers can have when a tick starts, not both
\* visible; an overlay whose add gave no identifier has no visible layer
StartVisibilities ==
    { v \in BOOLEAN \X BOOLEAN :
        /\ ~(v[1] /\ v[2])
        /\ layers.sun_id = NoId => ~v[1]
        /\ layers.moon_id = NoId => ~v[2] }

\* C28: with the calls of a tick succeeding and the two overlays not both
\* visible when it starts, the sun and moon overlay layers are never both
\* visible between the calls of the tick: the one to hide is hidden before
\* the other is shown.
C28_HideBeforeShow ==
    (LiveTick /\ AllCallsOk) =>
        \A vis \in StartVisibilities :
            \A k \in 0 .. Len(calls) :
                ~(VisAfter(k, vis)[1] /\ VisAfter(k, vis)[2])

\* The same for overlays whose identifiers pass the loop's test
C28_HideBeforeShowPresent ==
    (SunPresent /\ MoonPresent) => C28_HideBeforeShow

====
